---- MODULE Spec2Model ----
(***************************************************************************)
(* A model of the iDig synchronization server: the versioned trench store  *)
(* (Backend, over a git object store) and the sync protocol handler        *)
(* (Server.SyncTrench).  One trench of one project is modelled.            *)
(*                                                                         *)
(* Hashes are content addresses.  A blob or a tree is represented by its   *)
(* content (equal content, equal hash).  A commit hash is the position of  *)
(* the commit object in the object store; storing a commit whose encoding  *)
(* (tree, parents, author, time, message) is already present returns the   *)
(* existing position.  NoHash (0) stands for the empty version string.     *)
(***************************************************************************)
EXTENDS Integers, Sequences, FiniteSets, TLC

\* opened: the repository of the trench exists on disk (NewBackend ran)
\* objects: the blobs and the trees in the object store of the repository
VARIABLES head, commits, refs, procs, opened, objects

vars == <<head, commits, refs, procs, opened, objects>>

(***************************************************************************)
(* Bounds of the model.                                                    *)
(***************************************************************************)
MaxCommits == 2
MaxTime == 1

(***************************************************************************)
(* Universe of inputs.                                                     *)
(***************************************************************************)
Trench == "BZ"
Procs == {"p1", "p2"}
NoHash == 0
\* A version string that names no commit of the trench (a forged head).
UnknownHash == MaxCommits + 1

\* users.txt of the project: user -> trenches the user may write.
AccessDB == [alice |-> {"BZ"}, bob |-> {"AA"}, admin |-> {"*"}]

\* byte order of the strings that are used as tree entry names or patch ids
NameOrder == <<"", ".survey", "a", "b", "s1.survey", "s2.survey">>

\* the keys of a survey in the order encoding/json writes them (sorted)
KeyOrder == <<"IdentifierUUID", "RelationAttachments", "Title">>

\* one block of RelationAttachments: the lines "n=<name>" and "d=<checksum>",
\* each line given as the pair strings.Cut(line, "=") returns
Att(n, c) == << <<"n", n>>, <<"d", c>> >>

SA == [IdentifierUUID |-> "s1", Title |-> "t1"]
SB == [IdentifierUUID |-> "s1", Title |-> "t2",
       RelationAttachments |-> <<Att("b", "c1"), Att("a", "c1")>>]
SC == [IdentifierUUID |-> "s2", Title |-> "t1",
       RelationAttachments |-> <<Att("a", "c2"), << <<"n", "b">> >> >>]
SN == [Title |-> "t1"]
\* a survey with the identifier of SA
SD == [IdentifierUUID |-> "s1", Title |-> "t2"]

\* the survey lists a sync request or a WriteTrench call carries
RequestSurveys == {<< >>, <<SA>>, <<SC, SB>>, <<SA, SN>>, <<SA, SD>>}
RequestPreferences == {"", "P1"}
\* the uploads (name, checksum, bytes) a client makes
Uploads ==
    {<<"a", "c1", "d1">>, <<"a", "c1", "d2">>, <<"b", "c1", "d1">>,
     <<"a", "c2", "d2">>}

(***************************************************************************)
(* util.go: Set                                                            *)
(***************************************************************************)
RECURSIVE Rank(_, _)
Rank(name, i) ==
    IF i > Len(NameOrder) THEN 0
    ELSE IF NameOrder[i] = name THEN i ELSE Rank(name, i + 1)

\* name < other, as Go compares strings
StrLess(a, b) == Rank(a, 1) < Rank(b, 1)

\* Set.Array: the keys of the set, sorted
RECURSIVE ArrayFrom(_, _)
ArrayFrom(s, i) ==
    IF i > Len(NameOrder) THEN << >>
    ELSE (IF NameOrder[i] \in s THEN <<NameOrder[i]>> ELSE << >>)
         \o ArrayFrom(s, i + 1)

Array(s) == ArrayFrom(s, 1)

(***************************************************************************)
(* Survey model (Survey, Attachment, SurveyMap)                            *)
(***************************************************************************)
EmptySurvey == [k \in {} |-> ""]

\* s[key] of a Go map: the zero value when the key is absent
Get(s, key) ==
    IF key \in DOMAIN s THEN s[key]
    ELSE IF key = "RelationAttachments" THEN << >> ELSE ""

ID(s) == Get(s, "IdentifierUUID")

\* the value of the last line of the block whose key is k, "" if none
RECURSIVE LineValue(_, _, _)
LineValue(block, k, i) ==
    IF i = 0 THEN ""
    ELSE IF block[i][1] = k THEN block[i][2] ELSE LineValue(block, k, i - 1)

RECURSIVE AttachmentsFrom(_, _)
AttachmentsFrom(blocks, i) ==
    IF i > Len(blocks) THEN << >>
    ELSE LET name == LineValue(blocks[i], "n", Len(blocks[i]))
             ts == LineValue(blocks[i], "d", Len(blocks[i]))
         IN (IF name # "" /\ ts # ""
             THEN << [Name |-> name, Checksum |-> ts] >> ELSE << >>)
            \o AttachmentsFrom(blocks, i + 1)

Attachments(s) == AttachmentsFrom(Get(s, "RelationAttachments"), 1)

Keys(s) == DOMAIN s

\* a variant of IsEqual that compares the keys of the first survey only
IsEqualLeft(s, t) == \A key \in Keys(s) : Get(s, key) = Get(t, key)

IsEqual(s, t) == \A key \in Keys(s) \cup Keys(t) : Get(s, key) = Get(t, key)

\* NewSurveyMap: a later survey with the same id replaces an earlier one
RECURSIVE NewSurveyMapFrom(_, _)
NewSurveyMapFrom(surveys, i) ==
    IF i = 0 THEN [id \in {} |-> EmptySurvey]
    ELSE LET m == NewSurveyMapFrom(surveys, i - 1)
             id == ID(surveys[i])
         IN [k \in DOMAIN m \cup {id} |-> IF k = id THEN surveys[i] ELSE m[k]]

NewSurveyMap(surveys) == NewSurveyMapFrom(surveys, Len(surveys))

IDs(m) == DOMAIN m

\* m[id] of a SurveyMap: the nil survey when absent
Lookup(m, id) == IF id \in DOMAIN m THEN m[id] ELSE EmptySurvey

\* a variant of diffSurveys that visits the identifiers of the new list only
diffSurveysNewOnly(old, new) ==
    LET oldMap == NewSurveyMap(old)
        newMap == NewSurveyMap(new)
    IN { [Id |-> id, Old |-> Lookup(oldMap, id), New |-> Lookup(newMap, id)] :
           id \in { i \in IDs(newMap) :
                      ~IsEqual(Lookup(oldMap, i), Lookup(newMap, i)) } }

\* diffSurveys; the order of the patches is the iteration order of a Go map,
\* so the result is modelled as the set of the patches
diffSurveys(old, new) ==
    LET oldMap == NewSurveyMap(old)
        newMap == NewSurveyMap(new)
    IN { [Id |-> id, Old |-> Lookup(oldMap, id), New |-> Lookup(newMap, id)] :
           id \in { i \in IDs(oldMap) \cup IDs(newMap) :
                      ~IsEqual(Lookup(oldMap, i), Lookup(newMap, i)) } }

\* json.MarshalIndent of a survey: the members in sorted key order
RECURSIVE MarshalFrom(_, _)
MarshalFrom(s, i) ==
    IF i > Len(KeyOrder) THEN << >>
    ELSE (IF KeyOrder[i] \in DOMAIN s
          THEN << <<KeyOrder[i], s[KeyOrder[i]]>> >> ELSE << >>)
         \o MarshalFrom(s, i + 1)

Marshal(s) == MarshalFrom(s, 1)

\* json.Unmarshal into a Survey
Unmarshal(data) ==
    [k \in {data[i][1] : i \in DOMAIN data} |->
        data[CHOOSE i \in DOMAIN data : data[i][1] = k][2]]

(***************************************************************************)
(* Access policy (users.go) and the backend a request handler is given     *)
(***************************************************************************)
CanWriteTrench(user, trench) ==
    /\ user \in DOMAIN AccessDB
    /\ \E t \in AccessDB[user] : t = trench \/ t = "*"

\* a variant of HandleTrenchReadOnly that never sets the flag
HandleTrenchReadOnlyNever(user) == FALSE

\* HandleTrench: b.ReadOnly = !userDB.CanWriteTrench(user, trench)
HandleTrenchReadOnly(user) == ~CanWriteTrench(user, Trench)

(***************************************************************************)
(* The store of a trench: S = [head, commits, refs]                        *)
(***************************************************************************)
Store == [head |-> head, commits |-> commits, refs |-> refs]

Ok(v) == [ok |-> TRUE, val |-> v]
Err(v) == [ok |-> FALSE, val |-> v]

\* Backend.Head: the hash HEAD resolves to, NoHash when it does not resolve
HeadOf(S) == S.head

\* r.CommitObject(h) succeeds
HasCommit(S, h) == h \in DOMAIN S.commits

\* a variant of attachmentReference that names the reference by the name alone
attachmentReferenceByName(name, checksum) == name

\* attachmentReference: "refs/attachments/" + enc(name + "/" + checksum);
\* enc (base64) is one-to-one, so the reference is named by the string it encodes
attachmentReference(name, checksum) == name \o "/" \o checksum

ExistsAttachment(S, name, checksum) ==
    attachmentReference(name, checksum) \in DOMAIN S.refs

ReadAttachment(S, name, checksum) ==
    IF attachmentReference(name, checksum) \in DOMAIN S.refs
    THEN Ok(S.refs[attachmentReference(name, checksum)])
    ELSE Err("")

\* strings.HasPrefix(e.Name, "."): of the names a surveys tree can hold here
\* only the file of a survey without identifier starts with a dot
HasDotPrefix(name) == name = ".survey"

RECURSIVE ReadEntries(_, _)
ReadEntries(entries, i) ==
    IF i > Len(entries) THEN << >>
    ELSE (IF HasDotPrefix(entries[i].Name) THEN << >>
          ELSE <<Unmarshal(entries[i].Hash)>>)
         \o ReadEntries(entries, i + 1)

ReadSurveysAtVersion(S, version) ==
    IF ~HasCommit(S, version) THEN Err(<< >>)
    ELSE LET rootTree == S.commits[version].TreeHash
         IN IF "surveys" \notin rootTree.names THEN Err(<< >>)
            ELSE Ok(ReadEntries(rootTree.surveys, 1))

\* a variant of ReadSurveys that reads the commit of the head even when the
\* head is empty
ReadSurveysOfHead(S) == ReadSurveysAtVersion(S, HeadOf(S))

ReadSurveys(S) ==
    IF HeadOf(S) = NoHash THEN Ok(<< >>) ELSE ReadSurveysAtVersion(S, HeadOf(S))

ReadPreferencesAtVersion(S, version) ==
    IF ~HasCommit(S, version) THEN Err("")
    ELSE LET rootTree == S.commits[version].TreeHash
         IN IF "Preferences.json" \notin rootTree.names THEN Err("")
            ELSE Ok(rootTree.preferences)

ReadPreferences(S) ==
    IF HeadOf(S) = NoHash THEN Ok("") ELSE ReadPreferencesAtVersion(S, HeadOf(S))

\* r.Log from HEAD: the parent chain of the head, newest first
RECURSIVE LogFrom(_, _)
LogFrom(S, h) ==
    IF h = NoHash \/ ~HasCommit(S, h) THEN << >>
    ELSE <<h>> \o (IF S.commits[h].ParentHashes = << >> THEN << >>
                   ELSE LogFrom(S, S.commits[h].ParentHashes[1]))

ListVersions(S) == LogFrom(S, HeadOf(S))

\* addTree: sort.Slice(entries, by Name); insertion sort, as the Go runtime
\* sorts slices of fewer than 12 elements
RECURSIVE InsertEntry(_, _)
InsertEntry(sorted, e) ==
    IF sorted = << >> THEN <<e>>
    ELSE IF StrLess(e.Name, sorted[Len(sorted)].Name)
         THEN InsertEntry(SubSeq(sorted, 1, Len(sorted) - 1), e)
              \o <<sorted[Len(sorted)]>>
         ELSE sorted \o <<e>>

RECURSIVE SortEntries(_, _)
SortEntries(entries, i) ==
    IF i = 0 THEN << >>
    ELSE InsertEntry(SortEntries(entries, i - 1), entries[i])

addTree(entries) == SortEntries(entries, Len(entries))

\* the root tree; names is the set of its entries
RootTree(names, attachments, surveys, preferences) ==
    [names |-> names, attachments |-> attachments, surveys |-> surveys,
     preferences |-> preferences]

\* a variant of AttachmentEntries that leaves out an attachment without a
\* staging reference instead of failing
RECURSIVE AttachmentEntriesUnchecked(_, _, _)
AttachmentEntriesUnchecked(S, atts, i) ==
    IF i > Len(atts) THEN Ok(<< >>)
    ELSE LET refName == attachmentReference(atts[i].Name, atts[i].Checksum)
             rest == AttachmentEntriesUnchecked(S, atts, i + 1)
         IN IF refName \notin DOMAIN S.refs THEN rest
            ELSE Ok(<<[Name |-> atts[i].Name, Hash |-> S.refs[refName]]>>
                    \o rest.val)

\* WriteTrench, the loop over the attachments of one survey: the entries, or
\* an error when a staging reference is missing
RECURSIVE AttachmentEntries(_, _, _)
AttachmentEntries(S, atts, i) ==
    IF i > Len(atts) THEN Ok(<< >>)
    ELSE LET refName == attachmentReference(atts[i].Name, atts[i].Checksum)
             rest == AttachmentEntries(S, atts, i + 1)
         IN IF refName \notin DOMAIN S.refs THEN Err(<< >>)
            ELSE IF ~rest.ok THEN rest
            ELSE Ok(<<[Name |-> atts[i].Name, Hash |-> S.refs[refName]]>>
                    \o rest.val)

\* WriteTrench, the loop over the surveys: [ok, surveys, attachments]
RECURSIVE TrenchEntries(_, _, _)
TrenchEntries(S, surveys, i) ==
    IF i > Len(surveys)
    THEN [ok |-> TRUE, surveys |-> << >>, attachments |-> << >>]
    ELSE LET e == [Name |-> ID(surveys[i]) \o ".survey",
                   Hash |-> Marshal(surveys[i])]
             a == AttachmentEntries(S, Attachments(surveys[i]), 1)
             rest == TrenchEntries(S, surveys, i + 1)
         IN IF ~a.ok \/ ~rest.ok
            THEN [ok |-> FALSE, surveys |-> << >>, attachments |-> << >>]
            ELSE [ok |-> TRUE, surveys |-> <<e>> \o rest.surveys,
                  attachments |-> a.val \o rest.attachments]

\* WriteTrench up to the root tree
TrenchTree(S, preferences, surveys) ==
    LET es == TrenchEntries(S, surveys, 1)
    IN IF ~es.ok THEN Err(<< >>)
       ELSE Ok(RootTree({"attachments", "surveys", "Preferences.json"},
                        addTree(es.attachments), addTree(es.surveys),
                        preferences))

\* WritePreferences up to the root tree: the attachments and surveys entries
\* of the head's root tree, when there is a head, and the new preferences
PreferencesTree(S, preferences) ==
    IF HeadOf(S) = NoHash
    THEN Ok(RootTree({"Preferences.json"}, << >>, << >>, preferences))
    ELSE LET rootTree == S.commits[HeadOf(S)].TreeHash
         IN IF "attachments" \notin rootTree.names
               \/ "surveys" \notin rootTree.names
            THEN Err(<< >>)
            ELSE Ok(RootTree({"attachments", "surveys", "Preferences.json"},
                             rootTree.attachments, rootTree.surveys,
                             preferences))

\* Storer.SetEncodedObject of a commit: its hash
CommitHash(S, c) ==
    IF \E h \in DOMAIN S.commits : S.commits[h] = c
    THEN CHOOSE h \in DOMAIN S.commits : S.commits[h] = c
    ELSE Len(S.commits) + 1

\* the time of the latest commit object of the store
RECURSIVE LatestWhen(_, _)
LatestWhen(S, i) ==
    IF i = 0 THEN 0
    ELSE IF S.commits[i].When > LatestWhen(S, i - 1) THEN S.commits[i].When
         ELSE LatestWhen(S, i - 1)

\* a variant of Now in which the clock may read any time
NowAny(S) == 0 .. MaxTime

\* time.Now(): not before the time of any commit made so far
Now(S) == LatestWhen(S, Len(S.commits)) .. MaxTime

\* a variant of CommitObject that stores a commit also for the head's tree
CommitObjectAlways(S, user, device, message, tree, t) ==
    LET c == [TreeHash |-> tree,
              ParentHashes |-> IF HeadOf(S) # NoHash THEN <<HeadOf(S)>>
                               ELSE << >>,
              Email |-> user, Name |-> device, Message |-> message,
              When |-> t]
        h == CommitHash(S, c)
    IN [S |-> [S EXCEPT !.commits =
                  IF h \in DOMAIN S.commits THEN S.commits
                  ELSE Append(S.commits, c)],
        hash |-> h, stored |-> TRUE]

\* commit, up to and including SetEncodedObject, at time t: [S, hash, stored];
\* stored is FALSE when the tree is the head's tree and the head is returned
CommitObject(S, user, device, message, tree, t) ==
    IF HeadOf(S) # NoHash /\ S.commits[HeadOf(S)].TreeHash = tree
    THEN [S |-> S, hash |-> HeadOf(S), stored |-> FALSE]
    ELSE LET c == [TreeHash |-> tree,
                   ParentHashes |-> IF HeadOf(S) # NoHash THEN <<HeadOf(S)>>
                                    ELSE << >>,
                   Email |-> user, Name |-> device, Message |-> message,
                   When |-> t]
             h == CommitHash(S, c)
         IN [S |-> [S EXCEPT !.commits =
                       IF h \in DOMAIN S.commits THEN S.commits
                       ELSE Append(S.commits, c)],
             hash |-> h, stored |-> TRUE]

\* a variant of updateHEAD that leaves the branch where it is
updateHEADKeep(S, commit) == S

\* updateHEAD: the branch HEAD names is set to the commit
updateHEAD(S, commit) == [S EXCEPT !.head = commit]

\* findCommit: the commits a version string can resolve to.  A full hash
\* resolves to its commit; the empty string is a prefix of every hash and
\* resolves to the first commit the object iterator yields
findCommit(S, version) ==
    IF version = NoHash THEN DOMAIN S.commits
    ELSE IF HasCommit(S, version) THEN {version} ELSE {}

(***************************************************************************)
(* The versions of one survey                                              *)
(***************************************************************************)
\* the first entry of the list with the name, as ReadSurveyAtVersion scans
RECURSIVE FindEntry(_, _, _)
FindEntry(entries, name, i) ==
    IF i > Len(entries) THEN Err("")
    ELSE IF entries[i].Name = name THEN Ok(entries[i].Hash)
    ELSE FindEntry(entries, name, i + 1)

ReadSurveyAtVersion(S, id, version) ==
    IF ~HasCommit(S, version) THEN Err(EmptySurvey)
    ELSE LET rootTree == S.commits[version].TreeHash
         IN IF "surveys" \notin rootTree.names THEN Err(EmptySurvey)
            ELSE LET e == FindEntry(rootTree.surveys, id \o ".survey", 1)
                 IN IF e.ok THEN Ok(Unmarshal(e.val)) ELSE Err(EmptySurvey)

\* the file surveys/<id>.survey in the tree of a commit; no file when the
\* commit is none (the parent of the first commit) or its tree has no such path
FileAt(S, id, h) ==
    IF h = NoHash \/ "surveys" \notin S.commits[h].TreeHash.names THEN Err("")
    ELSE FindEntry(S.commits[h].TreeHash.surveys, id \o ".survey", 1)

ParentOf(S, h) ==
    IF S.commits[h].ParentHashes = << >> THEN NoHash
    ELSE S.commits[h].ParentHashes[1]

\* r.Log with FileName: the commit is yielded when the diff of its tree
\* against its parent's has a change, removal included, at the path
TouchesFile(S, id, h) == FileAt(S, id, h) # FileAt(S, id, ParentOf(S, h))

\* the ForEach of ReadAllSurveyVersions over the log from commit i of the
\* list on: it stops with the error of the first read that fails
RECURSIVE SurveyVersionsFrom(_, _, _, _)
SurveyVersionsFrom(S, id, log, i) ==
    IF i > Len(log) THEN Ok(<< >>)
    ELSE IF ~TouchesFile(S, id, log[i]) THEN SurveyVersionsFrom(S, id, log, i + 1)
    ELSE LET s == ReadSurveyAtVersion(S, id, log[i])
             rest == SurveyVersionsFrom(S, id, log, i + 1)
         IN IF ~s.ok THEN Err(<< >>)
            ELSE IF ~rest.ok THEN rest
            ELSE Ok(<<[Version |-> log[i], Date |-> S.commits[log[i]].When,
                       Survey |-> s.val]>> \o rest.val)

\* r.Log fails when HEAD names no commit
ReadAllSurveyVersions(S, id) ==
    IF HeadOf(S) = NoHash THEN Err(<< >>)
    ELSE SurveyVersionsFrom(S, id, ListVersions(S), 1)

(***************************************************************************)
(* The object store.  A stored blob or tree is its content under the kind  *)
(* of file it is: the bytes of an attachment or of Preferences.json, the   *)
(* JSON of a survey, the entries of surveys/, of attachments/, of the root.*)
(***************************************************************************)
Object(kind, content) == <<kind, content>>

\* the root tree with every tree and blob reachable from it
ObjectsOfTree(tree) ==
    {Object("/", tree), Object("bytes", tree.preferences)}
    \cup (IF "surveys" \in tree.names
          THEN {Object("surveys/", tree.surveys)}
               \cup {Object("survey", tree.surveys[i].Hash) : i \in DOMAIN tree.surveys}
          ELSE {})
    \cup (IF "attachments" \in tree.names
          THEN {Object("attachments/", tree.attachments)}
               \cup {Object("bytes", tree.attachments[i].Hash) :
                       i \in DOMAIN tree.attachments}
          ELSE {})

\* the objects the commits and the staging references of a store name
ObjectsOf(S) ==
    UNION {ObjectsOfTree(S.commits[h].TreeHash) : h \in DOMAIN S.commits}
    \cup {Object("bytes", S.refs[r]) : r \in DOMAIN S.refs}

(***************************************************************************)
(* Requests.  A request in progress is a record p: the operation, the      *)
(* backend it was given (User, ReadOnly), its arguments (req), its local   *)
(* variables (head, surveys, hash), its position (pc) and, when pc is      *)
(* "done", its answer (code, resp for the HTTP handlers; err, val for the  *)
(* calls of the backend); cred is the Basic credentials it came with.      *)
(***************************************************************************)
StatusOK == "ok"
StatusPushed == "pushed"
StatusPull == "pull"
StatusMissing == "missing"
StatusForbidden == "forbidden"

NoResp ==
    [Status |-> "", Version |-> NoHash, Preferences |-> "", Missing |-> << >>,
     Updates |-> {}]

IdleProc ==
    [pc |-> "idle", op |-> "none", via |-> "", User |-> "", ReadOnly |-> FALSE,
     req |-> << >>, head |-> NoHash, surveys |-> << >>, hash |-> NoHash,
     code |-> 0, resp |-> NoResp, err |-> "", val |-> NoHash, cred |-> << >>]

NewProc(op, via, user, readOnly, req) ==
    [IdleProc EXCEPT !.pc = op, !.op = op, !.via = via, !.User = user,
                     !.ReadOnly = readOnly, !.req = req]

SyncRequest(device, message, clientHead, preferences, surveys) ==
    [Device |-> device, Message |-> message, Head |-> clientHead,
     Preferences |-> preferences, Surveys |-> surveys]

\* a request body that is not the JSON of a SyncRequest
Malformed == [Body |-> "{"]

\* c.ShouldBindJSON(&req) succeeds
ShouldBindJSON(req) == "Head" \in DOMAIN req

\* the answer of an HTTP handler
Respond(p, code, resp) == [p EXCEPT !.pc = "done", !.code = code, !.resp = resp]

\* the answer of a call of the backend
Return(p, err, val) == [p EXCEPT !.pc = "done", !.err = err, !.val = val]

\* SyncTrench, lines 307-314: the names of the attachments not staged
RECURSIVE MissingFrom(_, _, _)
MissingFrom(S, atts, i) ==
    IF i > Len(atts) THEN {}
    ELSE (IF ExistsAttachment(S, atts[i].Name, atts[i].Checksum) THEN {}
          ELSE {atts[i].Name})
         \cup MissingFrom(S, atts, i + 1)

\* a variant of missingAttachments that does not ask ExistsAttachment
missingAttachmentsAll(S, surveys) ==
    UNION { {a.Name : a \in {Attachments(surveys[i])[j] :
                               j \in DOMAIN Attachments(surveys[i])}} :
              i \in DOMAIN surveys }

missingAttachments(S, surveys) ==
    UNION { MissingFrom(S, Attachments(surveys[i]), 1) : i \in DOMAIN surveys }

\* SyncTrench, lines 286-291: the status of the read-only branch
ReadOnlyStatus(patches, reqPreferences, preferences) ==
    IF patches = {} THEN StatusOK ELSE StatusForbidden

\* a variant of SetReference that keeps a reference that exists
SetReferenceOnce(S, refName, h) ==
    IF refName \in DOMAIN S.refs THEN S
    ELSE [S EXCEPT !.refs = [r \in DOMAIN S.refs \cup {refName} |->
                               IF r = refName THEN h ELSE S.refs[r]]]

\* Storer.SetReference of an attachment reference: created or overwritten
SetReference(S, refName, h) ==
    [S EXCEPT !.refs = [r \in DOMAIN S.refs \cup {refName} |->
                          IF r = refName THEN h ELSE S.refs[r]]]

\* a variant of PullBranch that sends the client to pull from an empty head too
PullBranchAnyHead(h, clientHead) == clientHead # h

\* SyncTrench, line 241: the client is behind the head of the trench
PullBranch(h, clientHead) == h # NoHash /\ clientHead # h

\* a variant of Committed in which a sync request is answered 'pushed' also
\* when WriteTrench returned the head the request saw
CommittedPushed(p, newHead) ==
    IF p.op = "sync"
    THEN Respond(p, 200,
                 [NoResp EXCEPT !.Version = newHead, !.Status = StatusPushed])
    ELSE Return(p, "", IF p.op = "writeTrench" THEN newHead ELSE NoHash)

\* the end of a commit-producing call: WriteTrench returns the hash to
\* SyncTrench (lines 325-337) or to its caller; WritePreferences and Rollback
\* return the error only
Committed(p, newHead) ==
    IF p.op = "sync"
    THEN Respond(p, 200,
                 [NoResp EXCEPT !.Version = newHead,
                                !.Status = IF newHead # p.head
                                           THEN StatusPushed ELSE StatusOK])
    ELSE Return(p, "", IF p.op = "writeTrench" THEN newHead ELSE NoHash)

\* a commit-producing call failed
Failed(p, err) ==
    IF p.op = "sync" THEN Respond(p, 400, NoResp) ELSE Return(p, err, NoHash)

\* commit: either the head is returned, or the commit object is stored and
\* updateHEAD is still to run
CommitStep(S, p, device, message, tree) ==
    { LET c == CommitObject(S, p.User, device, message, tree, t)
      IN IF ~c.stored THEN [S |-> S, p |-> Committed(p, c.hash)]
         ELSE [S |-> c.S, p |-> [p EXCEPT !.pc = "updateHEAD", !.hash = c.hash]] :
      t \in Now(S) }

\* One step of a request: the set of the possible outcomes [S, p].  A step
\* ends at a read or a write of HEAD, or at the end of the request.
Steps(S, p) ==
    CASE p.pc = "sync" ->
           \* SyncTrench, lines 229-241 and the branch taken
           IF ~ShouldBindJSON(p.req) THEN {[S |-> S, p |-> Respond(p, 400, NoResp)]}
           ELSE
           LET h == HeadOf(S)
           IN {[S |-> S,
                p |-> [p EXCEPT !.head = h,
                                !.pc = IF PullBranch(h, p.req.Head)
                                       THEN "pullSurveys"
                                       ELSE IF p.ReadOnly THEN "roSurveys"
                                       ELSE "missing"]]}
      [] p.pc \in {"pullSurveys", "roSurveys"} ->
           \* lines 246-249 and 272-275: b.ReadSurveys()
           LET r == ReadSurveys(S)
           IN {[S |-> S,
                p |-> IF ~r.ok THEN Respond(p, 500, NoResp)
                      ELSE [p EXCEPT !.surveys = r.val,
                                     !.pc = IF p.pc = "pullSurveys"
                                            THEN "pullPrefs" ELSE "roPrefs"]]}
      [] p.pc = "pullPrefs" ->
           \* lines 243-244 and 250-268
           LET old == ReadSurveysAtVersion(S, p.req.Head)
               oldSurveys == IF old.ok THEN old.val ELSE << >>
               oldP == ReadPreferencesAtVersion(S, p.req.Head)
               oldPrefs == IF oldP.ok THEN oldP.val ELSE ""
               r == ReadPreferences(S)
           IN {[S |-> S,
                p |-> IF ~r.ok THEN Respond(p, 500, NoResp)
                      ELSE Respond(p, 200,
                             [NoResp EXCEPT
                                !.Status = StatusPull,
                                !.Version = p.head,
                                !.Updates = diffSurveys(oldSurveys, p.surveys),
                                !.Preferences = IF oldPrefs = r.val THEN ""
                                                ELSE r.val])]}
      [] p.pc = "roPrefs" ->
           \* lines 276-301
           LET r == ReadPreferences(S)
               patches == diffSurveys(p.req.Surveys, p.surveys)
           IN {[S |-> S,
                p |-> IF ~r.ok THEN Respond(p, 500, NoResp)
                      ELSE Respond(p, 200,
                             [NoResp EXCEPT
                                !.Status = ReadOnlyStatus(patches,
                                              p.req.Preferences, r.val),
                                !.Version = p.head,
                                !.Updates = patches,
                                !.Preferences =
                                    IF p.req.Preferences = r.val THEN ""
                                    ELSE r.val])]}
      [] p.pc = "missing" ->
           \* lines 307-323
           LET missing == missingAttachments(S, p.req.Surveys)
           IN {[S |-> S,
                p |-> IF missing # {}
                      THEN Respond(p, 200,
                             [NoResp EXCEPT !.Status = StatusMissing,
                                            !.Version = p.head,
                                            !.Missing = Array(missing)])
                      ELSE [p EXCEPT !.pc = "writeTrench"]]}
      [] p.pc = "writeTrench" ->
           \* WriteTrench
           IF p.ReadOnly THEN {[S |-> S, p |-> Failed(p, "Forbidden")]}
           ELSE LET t == TrenchTree(S, p.req.Preferences, p.req.Surveys)
                IN IF ~t.ok THEN {[S |-> S, p |-> Failed(p, "reference not found")]}
                   ELSE CommitStep(S, p, p.req.Device, p.req.Message, t.val)
      [] p.pc = "writePreferences" ->
           \* WritePreferences
           IF p.ReadOnly THEN {[S |-> S, p |-> Failed(p, "Forbidden")]}
           ELSE LET t == PreferencesTree(S, p.req.Preferences)
                IN IF ~t.ok THEN {[S |-> S, p |-> Failed(p, "entry not found")]}
                   ELSE CommitStep(S, p, "terminal", "Import Preferences", t.val)
      [] p.pc = "rollback" ->
           \* Rollback
           IF findCommit(S, p.req.Version) = {}
           THEN {[S |-> S, p |-> Failed(p, "Invalid version")]}
           ELSE UNION {CommitStep(S, p, "terminal", "Rollback",
                                  S.commits[c].TreeHash) :
                         c \in findCommit(S, p.req.Version)}
      [] p.pc = "updateHEAD" ->
           \* commit, lines 457-462
           {[S |-> updateHEAD(S, p.hash), p |-> Committed(p, p.hash)]}
      [] p.pc = "writeAttachment" ->
           \* Backend.WriteAttachment, lines 242-249, and Server.WriteAttachment
           \* around it: the ReadOnly check and addBlob (the blob is its bytes)
           IF p.ReadOnly
           THEN {[S |-> S,
                  p |-> IF p.via = "http" THEN Respond(p, 500, NoResp)
                        ELSE Return(p, "Forbidden", NoHash)]}
           ELSE {[S |-> S, p |-> [p EXCEPT !.pc = "setReference"]]}
      [] p.pc = "readAttachment" ->
           \* Server.ReadAttachment
           LET r == ReadAttachment(S, p.req.Name, p.req.Checksum)
           IN {[S |-> S,
                p |-> [p EXCEPT !.pc = "done",
                                !.code = IF r.ok THEN 200 ELSE 500,
                                !.val = r.val]]}
      [] p.pc = "readSurveys" ->
           \* Server.ReadSurveys
           LET version == IF p.req.Version = NoHash THEN HeadOf(S)
                          ELSE p.req.Version
               r == ReadSurveysAtVersion(S, version)
           IN {[S |-> S,
                p |-> IF ~r.ok THEN Respond(p, 500, NoResp)
                      ELSE [Respond(p, 200, [NoResp EXCEPT !.Version = version])
                              EXCEPT !.val = r.val]]}
      [] p.pc = "readSurveyVersions" ->
           \* Server.ReadSurveyVersions
           LET r == ReadAllSurveyVersions(S, p.req.Id)
           IN {[S |-> S,
                p |-> IF ~r.ok THEN Respond(p, 500, NoResp)
                      ELSE [Respond(p, 200, NoResp) EXCEPT !.val = r.val]]}
      [] p.pc = "listVersions" ->
           \* Server.ListVersions; r.Log fails when HEAD names no commit
           {[S |-> S,
             p |-> IF HeadOf(S) = NoHash THEN Respond(p, 500, NoResp)
                   ELSE [Respond(p, 200, NoResp) EXCEPT !.val = ListVersions(S)]]}
      [] p.pc = "setReference" ->
           \* Backend.WriteAttachment, lines 251-258
           {[S |-> SetReference(S, attachmentReference(p.req.Name,
                                                       p.req.Checksum),
                                p.req.Data),
             p |-> IF p.via = "http" THEN Respond(p, 200, NoResp)
                   ELSE Return(p, "", NoHash)]}

\* a request run from its start to its answer with no other request between
RECURSIVE Run(_, _)
Run(S, p) ==
    IF p.pc = "done" THEN {[S |-> S, p |-> p]}
    ELSE UNION { Run(o.S, o.p) : o \in Steps(S, p) }

(***************************************************************************)
(* The state machine                                                       *)
(***************************************************************************)
EmptyRefs == [r \in {} |-> ""]

Init ==
    /\ head = NoHash
    /\ commits = << >>
    /\ refs = EmptyRefs
    /\ procs = [p \in Procs |-> IdleProc]
    /\ opened = FALSE
    /\ objects = {}

\* the outcome o of (a step of) the request of process p becomes the state;
\* the objects its commits and references name were stored on the way
Apply(p, o) ==
    /\ Len(o.S.commits) <= MaxCommits
    /\ head' = o.S.head
    /\ commits' = o.S.commits
    /\ refs' = o.S.refs
    /\ procs' = [procs EXCEPT ![p] = o.p]
    /\ opened' = TRUE
    /\ objects' = objects \cup ObjectsOf(o.S)

\* the request is served from its start to its answer
Serve(start) ==
    /\ procs["p1"].pc = "idle"
    /\ \E o \in Run(Store, start) : Apply("p1", o)

\* the version strings a client can send: none, a version of the trench, or
\* one the trench does not have
ClientHeads == {NoHash, UnknownHash} \cup DOMAIN commits

HttpUsers == {"alice", "bob"}
Device == "ipad"

SyncStart(user, clientHead, preferences, surveys) ==
    NewProc("sync", "http", user, HandleTrenchReadOnly(user),
            SyncRequest(Device, "", clientHead, preferences, surveys))

PutAttachmentStart(user, name, checksum, data) ==
    NewProc("writeAttachment", "http", user, HandleTrenchReadOnly(user),
            [Name |-> name, Checksum |-> checksum, Data |-> data])

WriteTrenchStart(readOnly, preferences, surveys) ==
    NewProc("writeTrench", "backend", "alice", readOnly,
            SyncRequest(Device, "", NoHash, preferences, surveys))

WriteAttachmentStart(readOnly, name, checksum, data) ==
    NewProc("writeAttachment", "backend", "alice", readOnly,
            [Name |-> name, Checksum |-> checksum, Data |-> data])

WritePreferencesStart(readOnly, preferences) ==
    NewProc("writePreferences", "backend", "admin", readOnly,
            [Preferences |-> preferences])

RollbackStart(readOnly, version) ==
    NewProc("rollback", "backend", "admin", readOnly, [Version |-> version])

\* POST /idig/:project/:trench
SyncTrench ==
    \E user \in HttpUsers, h \in ClientHeads,
       preferences \in RequestPreferences, surveys \in RequestSurveys :
        Serve(SyncStart(user, h, preferences, surveys))

\* PUT /idig/:project/:trench/attachments/:name
PutAttachment ==
    \E user \in HttpUsers, u \in Uploads :
        Serve(PutAttachmentStart(user, u[1], u[2], u[3]))

WriteTrench ==
    \E readOnly \in BOOLEAN, preferences \in RequestPreferences,
       surveys \in RequestSurveys :
        Serve(WriteTrenchStart(readOnly, preferences, surveys))

WriteAttachment ==
    \E readOnly \in BOOLEAN, u \in Uploads :
        Serve(WriteAttachmentStart(readOnly, u[1], u[2], u[3]))

\* idig-server import
WritePreferences ==
    \E readOnly \in BOOLEAN, preferences \in RequestPreferences :
        Serve(WritePreferencesStart(readOnly, preferences))

\* idig-server rollback
Rollback ==
    \E readOnly \in BOOLEAN, version \in ClientHeads :
        Serve(RollbackStart(readOnly, version))

\* HandleTrench, lines 93-100: the answer is written and the handler returns
Reply(p) ==
    /\ procs[p].pc = "done"
    /\ procs' = [procs EXCEPT ![p] = IdleProc]
    /\ UNCHANGED <<head, commits, refs, opened, objects>>

Next ==
    \/ SyncTrench
    \/ PutAttachment
    \/ WriteTrench
    \/ WriteAttachment
    \/ WritePreferences
    \/ Rollback
    \/ Reply("p1")

Spec == Init /\ [][Next]_vars

(***************************************************************************)
(* Overlapping requests.  The HTTP server runs every request in its own    *)
(* goroutine with its own Backend over the same repository, and nothing    *)
(* in the handlers excludes another request: the steps of two requests     *)
(* interleave.                                                             *)
(***************************************************************************)
\* the positions from which a request may still store a commit object
MayCommit == {"missing", "writeTrench", "writePreferences", "rollback"}

\* a request arrives at process p and takes its first step
Arrive(p, start) ==
    /\ procs[p].pc = "idle"
    /\ \E o \in Steps(Store, start) :
        /\ o.p.pc \in MayCommit =>
             Len(commits) + Cardinality({q \in Procs \ {p} :
                                           procs[q].pc \in MayCommit})
               < MaxCommits
        /\ Apply(p, o)

\* the contents (preferences, surveys) of the overlapping sync requests
OverlapContents == {<<"", <<SA>> >>, <<"P1", <<SA, SN>> >>}

ArriveSync(p) ==
    \E user \in HttpUsers, h \in ClientHeads, c \in OverlapContents :
        Arrive(p, SyncStart(user, h, c[1], c[2]))

\* the request of process p takes its next step
Step(p) ==
    /\ procs[p].pc \notin {"idle", "done"}
    /\ \E o \in Steps(Store, procs[p]) : Apply(p, o)

NextOverlap ==
    \E p \in Procs :
        \/ ArriveSync(p)
        \/ Step(p)
        \/ Reply(p)

SpecOverlap == Init /\ [][NextOverlap]_vars

(***************************************************************************)
(* Properties                                                              *)
(***************************************************************************)
Range(f) == {f[i] : i \in DOMAIN f}

\* the request served by the step: it was answered in this step
Answered(p) == procs[p].pc = "idle" /\ procs'[p].pc = "done"

StoreUnchanged == UNCHANGED <<head, commits, refs>>

\* the surveys and the preferences of a version, empty when it has none
SurveysAt(S, v) ==
    IF ReadSurveysAtVersion(S, v).ok THEN ReadSurveysAtVersion(S, v).val
    ELSE << >>

PreferencesAt(S, v) ==
    IF ReadPreferencesAtVersion(S, v).ok THEN ReadPreferencesAtVersion(S, v).val
    ELSE ""

\* the attachments the surveys of a list reference
Referenced(surveys) ==
    UNION { Range(Attachments(surveys[i])) : i \in DOMAIN surveys }

\* a sync request that has been answered
SyncDone(p) == procs[p].pc = "done" /\ procs[p].op = "sync"

\* C1: of two overlapping write-permitted sync requests that saw the same
\* head (or both saw no head) and propose different contents, at most one is
\* answered 'pushed'.
C1_AtMostOnePushed ==
    \A p, q \in Procs :
        ( /\ p # q
          /\ SyncDone(p) /\ SyncDone(q)
          /\ ~procs[p].ReadOnly /\ ~procs[q].ReadOnly
          /\ procs[p].head = procs[q].head
          /\ procs[p].head = NoHash \/ procs[p].req.Head = procs[p].head
          /\ procs[q].head = NoHash \/ procs[q].req.Head = procs[q].head
          /\ <<procs[p].req.Preferences, procs[p].req.Surveys>>
               # <<procs[q].req.Preferences, procs[q].req.Surveys>> )
        => ~( procs[p].resp.Status = StatusPushed
              /\ procs[q].resp.Status = StatusPushed )

\* C2: every commit a sync request stores has as its only parent the
\* client_head of the request, or no parent when the request saw no head.
C2_ParentIsClientHead ==
    \A p \in Procs :
        ( /\ procs[p].op = "sync"
          /\ procs[p].pc \in {"updateHEAD", "done"}
          /\ procs[p].hash # NoHash )
        => commits[procs[p].hash].ParentHashes
             = IF procs[p].head = NoHash THEN << >>
               ELSE <<procs[p].req.Head>>

\* C3: history is append-only: every commit has at most one parent, and a
\* version that is the head stays in the parent chain of every later head.
C3_AppendOnly ==
    [][ /\ \A h \in DOMAIN commits' : Len(commits'[h].ParentHashes) <= 1
        /\ head # NoHash =>
             head \in Range(ListVersions([head |-> head', commits |-> commits',
                                          refs |-> refs'])) ]_vars

\* C4: a sync request received when the head H is not empty and client_head
\* differs from H is answered 'pull' with version H, updates =
\* diff(surveys at client_head, surveys at H) and the preferences at H
\* exactly when they differ from those at client_head; the store is unchanged.
C4_Pull ==
    [][ ( /\ Answered("p1")
          /\ procs'["p1"].op = "sync"
          /\ head # NoHash
          /\ procs'["p1"].req.Head # head )
        => LET a == procs'["p1"]
               oldPrefs == PreferencesAt(Store, a.req.Head)
               newPrefs == PreferencesAt(Store, head)
           IN /\ a.code = 200
              /\ a.resp.Status = StatusPull
              /\ a.resp.Version = head
              /\ a.resp.Updates = diffSurveys(SurveysAt(Store, a.req.Head),
                                              SurveysAt(Store, head))
              /\ a.resp.Preferences = IF newPrefs # oldPrefs THEN newPrefs
                                      ELSE ""
              /\ StoreUnchanged ]_vars

\* the surveys stored in the tree of a commit
StoredSurveys(c) == { Unmarshal(c.TreeHash.surveys[i].Hash) :
                        i \in DOMAIN c.TreeHash.surveys }

\* C5: every attachment (name, checksum) of every survey stored in a commit
\* of the trench has a staging reference: it exists and can be read.
C5_AttachmentsStaged ==
    \A h \in DOMAIN commits :
        \A sv \in StoredSurveys(commits[h]) :
            \A a \in Range(Attachments(sv)) :
                /\ ExistsAttachment(Store, a.Name, a.Checksum)
                /\ ReadAttachment(Store, a.Name, a.Checksum).ok

C5_Witness ==
    /\ head # NoHash
    /\ \E sv \in StoredSurveys(commits[head]) : Len(Attachments(sv)) = 2

\* C6: a request (sync or attachment upload) of a principal for whom
\* CanWriteTrench is false changes neither the head, nor the commits, nor
\* the attachment references.
C6_ReadOnlyPrincipal ==
    [][ ( /\ Answered("p1")
          /\ procs'["p1"].via = "http"
          /\ ~CanWriteTrench(procs'["p1"].User, Trench) )
        => StoreUnchanged ]_vars

C6_Witness ==
    /\ SyncDone("p1")
    /\ ~CanWriteTrench(procs["p1"].User, Trench)
    /\ procs["p1"].resp.Status = StatusForbidden
    /\ procs["p1"].req.Preferences # ""
    /\ head # NoHash

\* C7: with the ReadOnly flag of the backend set, WriteTrench,
\* WriteAttachment, WritePreferences and Rollback fail with Forbidden and
\* change nothing.
C7_ReadOnlyBackend ==
    [][ ( /\ Answered("p1")
          /\ procs'["p1"].via = "backend"
          /\ procs'["p1"].ReadOnly )
        => /\ procs'["p1"].err = "Forbidden"
           /\ StoreUnchanged ]_vars

\* C8: a read-only sync request with the head empty or client_head = H is
\* answered 'ok' iff diff(client surveys, surveys at H) is empty and the
\* client's preferences are those at H, otherwise 'forbidden'; with version
\* H and updates = diff(client surveys, surveys at H).
C8_ReadOnlySync ==
    [][ ( /\ Answered("p1")
          /\ procs'["p1"].op = "sync"
          /\ procs'["p1"].ReadOnly
          /\ head = NoHash \/ procs'["p1"].req.Head = head )
        => LET a == procs'["p1"]
               patches == diffSurveys(a.req.Surveys, SurveysAt(Store, head))
           IN /\ a.code = 200
              /\ a.resp.Status =
                   IF patches = {}
                      /\ a.req.Preferences = PreferencesAt(Store, head)
                   THEN StatusOK ELSE StatusForbidden
              /\ a.resp.Version = head
              /\ a.resp.Updates = patches ]_vars

\* the names of the referenced attachments without a staging reference
Unstaged(surveys) ==
    { a.Name : a \in { b \in Referenced(surveys) :
                         attachmentReference(b.Name, b.Checksum)
                           \notin DOMAIN refs } }

\* the sequence is strictly increasing in byte order
SortedUnique(seq) ==
    \A i, j \in DOMAIN seq : i < j => StrLess(seq[i], seq[j])

\* C9: a write-permitted sync request with the head empty or client_head = H
\* that references an attachment without a staging reference is answered
\* 'missing' with version H and the sorted names, each once, of exactly the
\* unstaged referenced attachments; the store is unchanged.
C9_Missing ==
    [][ ( /\ Answered("p1")
          /\ procs'["p1"].op = "sync"
          /\ ~procs'["p1"].ReadOnly
          /\ head = NoHash \/ procs'["p1"].req.Head = head
          /\ Unstaged(procs'["p1"].req.Surveys) # {} )
        => LET a == procs'["p1"]
           IN /\ a.code = 200
              /\ a.resp.Status = StatusMissing
              /\ a.resp.Version = head
              /\ Range(a.resp.Missing) = Unstaged(a.req.Surveys)
              /\ SortedUnique(a.resp.Missing)
              /\ StoreUnchanged ]_vars

C9_Witness ==
    /\ SyncDone("p1")
    /\ procs["p1"].resp.Status = StatusMissing
    /\ procs["p1"].resp.Missing = <<"a", "b">>
    /\ DOMAIN refs # {}

\* the surveys of the two lists are the same, whatever their order
SameSurveys(x, y) ==
    /\ Len(x) = Len(y)
    /\ \A sv \in Range(x) \cup Range(y) :
           Cardinality({i \in DOMAIN x : x[i] = sv})
             = Cardinality({i \in DOMAIN y : y[i] = sv})

\* C10: a write-permitted sync request answered 'pushed' with version H':
\* H' is not the prior head H, H' is the head afterwards, the parent of H' is
\* H (none when there was no head), and the surveys and the preferences read
\* at H' are those of the request.
C10_Pushed ==
    [][ ( /\ Answered("p1")
          /\ procs'["p1"].op = "sync"
          /\ procs'["p1"].resp.Status = StatusPushed )
        => LET a == procs'["p1"]
               v == a.resp.Version
               after == [head |-> head', commits |-> commits', refs |-> refs']
           IN /\ v # head
              /\ head' = v
              /\ HasCommit(after, v)
              /\ commits'[v].ParentHashes
                   = IF head = NoHash THEN << >> ELSE <<head>>
              /\ ReadSurveysAtVersion(after, v).ok
              /\ SameSurveys(ReadSurveysAtVersion(after, v).val, a.req.Surveys)
              /\ ReadPreferencesAtVersion(after, v) = Ok(a.req.Preferences) ]_vars

\* C11: with no head, a sync request is never answered 'pull', whatever its
\* client_head; a write-permitted one whose referenced attachments are all
\* staged creates the first commit and is answered 'pushed' with a version
\* that is not empty.
C11_EmptyHeadWrites ==
    [][ ( /\ Answered("p1")
          /\ procs'["p1"].op = "sync"
          /\ head = NoHash )
        => LET a == procs'["p1"]
           IN /\ a.resp.Status # StatusPull
              /\ ( ~a.ReadOnly /\ Unstaged(a.req.Surveys) = {} )
                   => /\ a.code = 200
                      /\ a.resp.Status = StatusPushed
                      /\ a.resp.Version # NoHash
                      /\ commits = << >> /\ Len(commits') = 1
                      /\ head' = a.resp.Version
                      /\ commits'[head'].ParentHashes = << >> ]_vars

C11_Witness ==
    /\ SyncDone("p1")
    /\ procs["p1"].req.Head = UnknownHash
    /\ procs["p1"].head = NoHash
    /\ procs["p1"].resp.Status = StatusPushed
    /\ procs["p1"].resp.Version = head
    /\ Referenced(procs["p1"].req.Surveys) # {}

\* the root trees the commit-producing call of request p computes in store S:
\* none when the call does not get as far as commit
ComputedTrees(S, p) ==
    CASE p.op = "sync" ->
           IF p.ReadOnly \/ PullBranch(HeadOf(S), p.req.Head)
              \/ ~TrenchTree(S, p.req.Preferences, p.req.Surveys).ok
           THEN {}
           ELSE {TrenchTree(S, p.req.Preferences, p.req.Surveys).val}
      [] p.op = "writeTrench" ->
           IF p.ReadOnly \/ ~TrenchTree(S, p.req.Preferences, p.req.Surveys).ok
           THEN {}
           ELSE {TrenchTree(S, p.req.Preferences, p.req.Surveys).val}
      [] p.op = "writePreferences" ->
           IF p.ReadOnly \/ ~PreferencesTree(S, p.req.Preferences).ok THEN {}
           ELSE {PreferencesTree(S, p.req.Preferences).val}
      [] p.op = "rollback" ->
           {S.commits[c].TreeHash : c \in findCommit(S, p.req.Version)}
      [] OTHER -> {}

\* C12: a commit-producing operation (WriteTrench, also from a sync request,
\* WritePreferences, Rollback) that computes the root tree of the head commit
\* stores no commit, leaves the head and returns it; WriteTrench repeated
\* with the same preferences and surveys returns the same head again.
C12_SameTreeNoCommit ==
    [][ Answered("p1") =>
        LET a == procs'["p1"]
            after == [head |-> head', commits |-> commits', refs |-> refs']
        IN /\ ( /\ head # NoHash
                /\ ComputedTrees(Store, a) = {commits[head].TreeHash} )
              => /\ StoreUnchanged
                 /\ a.op = "sync" =>
                      /\ a.code = 200
                      /\ a.resp.Status = StatusOK
                      /\ a.resp.Version = head
                 /\ a.op # "sync" => a.err = ""
                 /\ a.op = "writeTrench" => a.val = head
           /\ ( a.op = "writeTrench" /\ a.err = "" )
              => /\ a.val = head'
                 /\ \A o \in Run(after,
                                 WriteTrenchStart(FALSE, a.req.Preferences,
                                                  a.req.Surveys)) :
                        /\ o.S = after
                        /\ o.p.err = ""
                        /\ o.p.val = a.val ]_vars

\* a Rollback to the head's own version was answered and stored nothing
C12_Witness ==
    /\ procs["p1"].pc = "done"
    /\ procs["p1"].op = "rollback"
    /\ procs["p1"].err = ""
    /\ procs["p1"].req.Version = head
    /\ Len(commits) = 1
    /\ commits[head].TreeHash.surveys # << >>

\* C13: a sync request answered 'pushed' with version V and sent again with
\* the same surveys and preferences and head = V, nothing written between,
\* is answered 'ok' with version V; ListVersions() keeps its length.
C13_ResendOk ==
    [][ ( /\ Answered("p1")
          /\ procs'["p1"].op = "sync"
          /\ procs'["p1"].resp.Status = StatusPushed )
        => LET a == procs'["p1"]
               after == [head |-> head', commits |-> commits', refs |-> refs']
           IN \A o \in Run(after, SyncStart(a.User, a.resp.Version,
                                            a.req.Preferences, a.req.Surveys)) :
                 /\ o.p.code = 200
                 /\ o.p.resp.Status = StatusOK
                 /\ o.p.resp.Version = a.resp.Version
                 /\ Len(ListVersions(o.S)) = Len(ListVersions(after))
                 /\ o.S = after ]_vars

\* the request that made the head was sent again and answered 'ok'
C13_Witness ==
    /\ SyncDone("p1")
    /\ ~procs["p1"].ReadOnly
    /\ procs["p1"].resp.Status = StatusOK
    /\ head # NoHash
    /\ procs["p1"].req.Head = head
    /\ procs["p1"].resp.Version = head
    /\ procs["p1"].req.Surveys = <<SC, SB>>
    /\ commits[head].ParentHashes # << >>

\* The client of the sync protocol.  The store after the client has uploaded,
\* one PUT each, the attachments atts (name and checksum as its surveys
\* reference them) with its bytes
RECURSIVE UploadAll(_, _, _)
UploadAll(S, user, atts) ==
    IF atts = {} THEN S
    ELSE LET a == CHOOSE x \in atts : TRUE
             o == CHOOSE x \in Run(S, PutAttachmentStart(user, a.Name,
                                                         a.Checksum, "d1")) :
                      TRUE
         IN UploadAll(o.S, user, atts \ {a})

\* the answers that can end the session of a client that sends a sync
\* request with head clientHead and follows the protocol: on 'pull' it takes
\* the returned version as its head and sends again, on 'missing' it uploads
\* the listed attachments and sends again.  pulls and missings count the
\* rounds so far; a second round of either kind ends the session
RECURSIVE Session(_, _, _, _, _, _, _)
Session(S, user, clientHead, preferences, surveys, pulls, missings) ==
    UNION { IF o.p.code # 200 THEN {"error"}
            ELSE IF o.p.resp.Status = StatusPull
            THEN IF pulls = 1 THEN {"pull again"}
                 ELSE Session(o.S, user, o.p.resp.Version, preferences,
                              surveys, 1, missings)
            ELSE IF o.p.resp.Status = StatusMissing
            THEN IF missings = 1 THEN {"missing again"}
                 ELSE Session(UploadAll(o.S, user,
                                  {a \in Referenced(surveys) :
                                     a.Name \in Range(o.p.resp.Missing)}),
                              user, clientHead, preferences, surveys, pulls, 1)
            ELSE {o.p.resp.Status} :
            o \in Run(S, SyncStart(user, clientHead, preferences, surveys)) }

\* C14: a write-permitted client that follows the protocol, alone on the
\* trench, ends with 'pushed' or 'ok' after at most one 'pull' round and at
\* most one 'missing' round, whatever the state of the trench and whatever
\* head, preferences and surveys the client starts with.
C14_ClientEnds ==
    procs["p1"].pc = "idle" =>
        \A h \in ClientHeads, preferences \in RequestPreferences,
           surveys \in RequestSurveys :
            Session(Store, "alice", h, preferences, surveys, 0, 0)
                \subseteq {StatusPushed, StatusOK}

\* C15: a 'pull' answer to a request whose client_head resolves to no commit
\* takes the old surveys and preferences as empty: updates holds exactly one
\* patch, with an empty old side, for every survey at the head that is not
\* equal to the empty survey, and the preferences of the head are included
\* when they are not empty.
C15_PullFromNothing ==
    [][ ( /\ Answered("p1")
          /\ procs'["p1"].op = "sync"
          /\ procs'["p1"].resp.Status = StatusPull
          /\ ~HasCommit(Store, procs'["p1"].req.Head) )
        => LET a == procs'["p1"]
           IN /\ a.resp.Updates
                   = { [Id |-> ID(sv), Old |-> EmptySurvey, New |-> sv] :
                         sv \in { x \in Range(SurveysAt(Store, head)) :
                                    ~IsEqual(x, EmptySurvey) } }
              /\ a.resp.Preferences = PreferencesAt(Store, head) ]_vars

(***************************************************************************)
(* Attachment staging on its own: the uploads of a larger universe, with   *)
(* names and checksums that contain the separator "/".                     *)
(***************************************************************************)
StagingNames == {"a", "b", "a/c1"}
StagingChecksums == {"c1", "c2", "c1/c2"}

\* the calls (name, checksum, bytes) of Backend.WriteAttachment
StagingUploads ==
    {<<"a", "c1", "d1">>, <<"a", "c1", "d2">>, <<"a", "c2", "d1">>,
     <<"b", "c1", "d2">>, <<"a/c1", "c2", "d1">>, <<"a", "c1/c2", "d2">>}

\* PUT .../attachments/:name?checksum=: the router matches :name against one
\* segment of the path, so the name holds no "/"; the checksum is a query
\* parameter and may
HttpStagingUploads == {u \in StagingUploads : u[1] \in {"a", "b"}}

WriteAttachmentAny ==
    \E readOnly \in BOOLEAN, u \in StagingUploads :
        Serve(WriteAttachmentStart(readOnly, u[1], u[2], u[3]))

PutAttachmentAny ==
    \E user \in HttpUsers, u \in HttpStagingUploads :
        Serve(PutAttachmentStart(user, u[1], u[2], u[3]))

NextStaging ==
    \/ WriteAttachmentAny
    \/ PutAttachmentAny
    \/ Reply("p1")

SpecStaging == Init /\ [][NextStaging]_vars

\* overlapping uploads: the steps of two WriteAttachment calls interleave
ArriveWriteAttachment(p) ==
    \E u \in StagingUploads :
        Arrive(p, WriteAttachmentStart(FALSE, u[1], u[2], u[3]))

ArrivePutAttachment(p) ==
    \E user \in HttpUsers, u \in HttpStagingUploads :
        Arrive(p, PutAttachmentStart(user, u[1], u[2], u[3]))

NextStagingOverlap ==
    \E p \in Procs :
        \/ ArriveWriteAttachment(p)
        \/ ArrivePutAttachment(p)
        \/ Step(p)
        \/ Reply(p)

SpecStagingOverlap == Init /\ [][NextStagingOverlap]_vars

\* a WriteAttachment call, or an upload, that was answered with success
Staged(a) ==
    /\ a.pc = "done"
    /\ a.op = "writeAttachment"
    /\ IF a.via = "http" THEN a.code = 200 ELSE a.err = ""

\* C16: after a successful WriteAttachment(n, c, d), ExistsAttachment(n, c)
\* is true and ReadAttachment(n, c) returns d; a WriteAttachment of another
\* pair with the same name and a different checksum, or the same checksum
\* and a different name, leaves what (n, c) reads.
C16_WriteThenRead ==
    [][ ( Answered("p1") /\ Staged(procs'["p1"]) )
        => LET a == procs'["p1"]
               after == [head |-> head', commits |-> commits', refs |-> refs']
           IN /\ ExistsAttachment(after, a.req.Name, a.req.Checksum)
              /\ ReadAttachment(after, a.req.Name, a.req.Checksum)
                   = Ok(a.req.Data)
              /\ \A n \in StagingNames, c \in StagingChecksums :
                    ( \/ n = a.req.Name /\ c # a.req.Checksum
                      \/ n # a.req.Name /\ c = a.req.Checksum )
                    => ReadAttachment(after, n, c)
                         = ReadAttachment(Store, n, c) ]_vars

\* ("a", "c1") was written with the bytes d2 over d1, after ("a", "c2") and
\* ("b", "c1") were written
C16_Witness ==
    /\ Staged(procs["p1"])
    /\ procs["p1"].req = [Name |-> "a", Checksum |-> "c1", Data |-> "d1"]
    /\ ReadAttachment(Store, "a", "c2") = Ok("d1")
    /\ ReadAttachment(Store, "b", "c1") = Ok("d2")
    /\ ReadAttachment(Store, "a", "c1") = Ok("d1")
    /\ procs["p1"].via = "backend"

\* C17: attachments are keyed by the pair (name, checksum): a
\* WriteAttachment(n, c, d) creates or changes the reference of no other
\* pair: every pair other than (n, c) exists and reads after the call as
\* before it, and a pair never written does not exist.
C17_KeyedByPair ==
    [][ ( Answered("p1") /\ procs'["p1"].op = "writeAttachment" )
        => LET a == procs'["p1"]
               after == [head |-> head', commits |-> commits', refs |-> refs']
           IN \A n \in StagingNames, c \in StagingChecksums :
                 <<n, c>> # <<a.req.Name, a.req.Checksum>>
                 => /\ ExistsAttachment(after, n, c)
                        = ExistsAttachment(Store, n, c)
                    /\ ReadAttachment(after, n, c)
                        = ReadAttachment(Store, n, c) ]_vars

\* C18: uploads need no ordering.  In every interleaving, the SetReference
\* of an upload (n, c, d) sets the reference of (n, c) to d and changes no
\* other; when (n, c) already reads d (the same upload was made before, or
\* by the overlapping request) the store stays as it is; and it leaves what
\* the overlapping upload of the same name with another checksum reads, so
\* both uploads are recorded, each with its own bytes.
C18_UploadsCommute ==
    [][ \A p \in Procs :
          LET q == CHOOSE x \in Procs : x # p
              a == procs'[p]
              b == procs'[q]
              after == [head |-> head', commits |-> commits', refs |-> refs']
          IN ( procs[p].pc = "setReference" /\ Staged(a) )
             => /\ after = SetReference(Store,
                              attachmentReference(a.req.Name, a.req.Checksum),
                              a.req.Data)
                /\ ReadAttachment(after, a.req.Name, a.req.Checksum)
                     = Ok(a.req.Data)
                /\ ReadAttachment(Store, a.req.Name, a.req.Checksum)
                     = Ok(a.req.Data) => after = Store
                /\ ( /\ b.op = "writeAttachment"
                     /\ b.req.Name = a.req.Name
                     /\ b.req.Checksum # a.req.Checksum )
                   => ReadAttachment(after, b.req.Name, b.req.Checksum)
                        = ReadAttachment(Store, b.req.Name, b.req.Checksum)
      ]_vars

\* two uploads of the name "a" with the checksums c1 and c2 are answered and
\* both are readable
C18_Witness ==
    /\ Staged(procs["p1"]) /\ Staged(procs["p2"])
    /\ procs["p1"].req.Name = "a" /\ procs["p2"].req.Name = "a"
    /\ procs["p1"].req.Checksum = "c1" /\ procs["p2"].req.Checksum = "c2"
    /\ ReadAttachment(Store, "a", "c1") = Ok(procs["p1"].req.Data)
    /\ ReadAttachment(Store, "a", "c2") = Ok(procs["p2"].req.Data)

\* C19: after a successful WriteTrench(device, message, preferences, surveys)
\* that returns v: Head() = v, v is the first of ListVersions(), and
\* ReadSurveys() returns the surveys written: the same identifiers, each with
\* equal content, and as many surveys.
C19_WriteThenRead ==
    [][ ( /\ Answered("p1")
          /\ procs'["p1"].op = "writeTrench"
          /\ procs'["p1"].err = "" )
        => LET a == procs'["p1"]
               after == [head |-> head', commits |-> commits', refs |-> refs']
               read == ReadSurveys(after)
           IN /\ HeadOf(after) = a.val
              /\ ListVersions(after) # << >>
              /\ ListVersions(after)[1] = a.val
              /\ read.ok
              /\ NewSurveyMap(read.val) = NewSurveyMap(a.req.Surveys)
              /\ SameSurveys(read.val, a.req.Surveys) ]_vars

\* C20: WritePreferences(p) on a trench that has a head, p not being the
\* preferences of the head, creates a commit whose parent is the old head;
\* then ReadPreferences() = p, the surveys and attachments entries of the
\* root tree are those of the parent, and ReadSurveys() returns the same
\* surveys as before.
C20_PreferencesOnly ==
    [][ ( /\ Answered("p1")
          /\ procs'["p1"].op = "writePreferences"
          /\ ~procs'["p1"].ReadOnly
          /\ head # NoHash
          /\ ReadPreferences(Store) # Ok(procs'["p1"].req.Preferences) )
        => LET a == procs'["p1"]
               after == [head |-> head', commits |-> commits', refs |-> refs']
           IN /\ a.err = ""
              /\ head' # head
              /\ HasCommit(after, head')
              /\ commits'[head'].ParentHashes = <<head>>
              /\ ReadPreferences(after) = Ok(a.req.Preferences)
              /\ commits'[head'].TreeHash.surveys
                   = commits[head].TreeHash.surveys
              /\ commits'[head'].TreeHash.attachments
                   = commits[head].TreeHash.attachments
              /\ ReadSurveys(after).ok
              /\ ReadSurveys(after) = ReadSurveys(Store) ]_vars

\* C21: every commit in the parent chain of the head has a root tree with
\* exactly the entries Preferences.json, surveys and attachments, so
\* ReadSurveysAtVersion and ReadPreferencesAtVersion succeed for every
\* version in ListVersions().
C21_RootLayout ==
    \A v \in Range(ListVersions(Store)) :
        /\ commits[v].TreeHash.names
             = {"Preferences.json", "surveys", "attachments"}
        /\ ReadSurveysAtVersion(Store, v).ok
        /\ ReadPreferencesAtVersion(Store, v).ok

\* C23: in every reachable state of a trench, a freshly created one with an
\* empty head included, ReadSurveysAtVersion(Head()) and ReadSurveys() return
\* the same result.
C23_HeadVersionRead ==
    ReadSurveysAtVersion(Store, HeadOf(Store)) = ReadSurveys(Store)

(***************************************************************************)
(* Histories.  The calls of the backend that make versions (WriteTrench,   *)
(* WritePreferences, Rollback), one after the other, on a trench that may  *)
(* hold MaxHistory commits: long enough for a rollback to an earlier       *)
(* version and for a survey that is written, changed and removed.          *)
(***************************************************************************)
MaxHistory == 3

\* a version string that names no commit of a history
HistoryUnknown == MaxHistory + 1

\* the survey lists of a history: the survey s1 absent, written, changed
HistorySurveys == {<< >>, <<SA>>, <<SD>>}

ServeHistory(start) ==
    /\ procs["p1"].pc = "idle"
    /\ \E o \in Run(Store, start) :
          /\ Len(o.S.commits) <= MaxHistory
          /\ head' = o.S.head
          /\ commits' = o.S.commits
          /\ refs' = o.S.refs
          /\ procs' = [procs EXCEPT !["p1"] = o.p]
          /\ opened' = TRUE
          /\ objects' = objects \cup ObjectsOf(o.S)

HistoryWriteTrench ==
    \E preferences \in RequestPreferences, surveys \in HistorySurveys :
        ServeHistory(WriteTrenchStart(FALSE, preferences, surveys))

HistoryWritePreferences ==
    \E preferences \in RequestPreferences :
        ServeHistory(WritePreferencesStart(FALSE, preferences))

HistoryRollback ==
    \E version \in {NoHash, HistoryUnknown} \cup DOMAIN commits :
        ServeHistory(RollbackStart(FALSE, version))

NextHistory ==
    \/ HistoryWriteTrench
    \/ HistoryWritePreferences
    \/ HistoryRollback
    \/ Reply("p1")

SpecHistory == Init /\ [][NextHistory]_vars

\* C22: Rollback(v), for v resolving to a commit whose tree differs from the
\* head's tree, creates a new commit whose tree is the tree of that commit
\* and whose only parent is the head before the call; afterwards
\* ReadSurveys() and ReadPreferences() equal those at that version, and every
\* version listed before the call is still listed by ListVersions().
C22_Rollback ==
    [][ ( /\ Answered("p1")
          /\ procs'["p1"].op = "rollback"
          /\ findCommit(Store, procs'["p1"].req.Version) # {} )
        => LET after == [head |-> head', commits |-> commits', refs |-> refs']
           IN /\ head # NoHash
              /\ \E c \in findCommit(Store, procs'["p1"].req.Version) :
                 IF commits[c].TreeHash = commits[head].TreeHash
                 THEN StoreUnchanged
                 ELSE /\ procs'["p1"].err = ""
                      /\ head' \notin DOMAIN commits
                      /\ commits' = Append(commits, commits'[head'])
                      /\ commits'[head'].TreeHash = commits[c].TreeHash
                      /\ commits'[head'].ParentHashes = <<head>>
                      /\ ReadSurveys(after) = ReadSurveysAtVersion(after, c)
                      /\ ReadPreferences(after)
                           = ReadPreferencesAtVersion(after, c)
                      /\ Range(ListVersions(Store))
                           \subseteq Range(ListVersions(after))
                      /\ refs' = refs ]_vars

\* a Rollback to the first of two versions with different trees was answered:
\* the third commit has the tree of the first and the second as its parent
C22_Witness ==
    /\ procs["p1"].pc = "done"
    /\ procs["p1"].op = "rollback"
    /\ procs["p1"].req.Version = 1
    /\ procs["p1"].err = ""
    /\ Len(commits) = 3
    /\ head = 3
    /\ commits[3].TreeHash = commits[1].TreeHash
    /\ commits[3].TreeHash # commits[2].TreeHash
    /\ commits[1].TreeHash.surveys # << >>

SF == [IdentifierUUID |-> "s1", Title |-> "t1",
       RelationAttachments |-> << Att("a", "c1") >>]
SE == [IdentifierUUID |-> "s1", Title |-> "t1", RelationAttachments |-> << >>]

MaxLen == 2

DiffSurveyValues == {SA, SD, SE, SF, SC, SN}

\* the survey lists of at most MaxLen surveys
DiffLists == UNION { [1 .. n -> DiffSurveyValues] : n \in 0 .. MaxLen }

InitDiff ==
    /\ head = NoHash
    /\ commits = << >>
    /\ refs = EmptyRefs
    /\ opened = FALSE
    /\ objects = {}
    /\ \E old \in DiffLists, new \in DiffLists :
          procs = [p \in Procs |->
                     IF p = "p1"
                     THEN [IdleProc EXCEPT !.op = "diffSurveys",
                                           !.pc = "diffSurveys",
                                           !.req = [Old |-> old, New |-> new]]
                     ELSE IdleProc]

Diff ==
    /\ procs["p1"].pc = "diffSurveys"
    /\ procs' = [procs EXCEPT !["p1"] =
                   Respond(procs["p1"], 200,
                           [NoResp EXCEPT !.Updates =
                              diffSurveys(procs["p1"].req.Old,
                                          procs["p1"].req.New)])]
    /\ UNCHANGED <<head, commits, refs, opened, objects>>

NextDiff == Diff

SpecDiff == InitDiff /\ [][NextDiff]_vars

\* diffSurveys has been applied to the two lists
Diffed == procs["p1"].op = "diffSurveys" /\ procs["p1"].pc = "done"

\* C25: for all survey lists A and B, diffSurveys(A, A) is empty, and
\* diffSurveys(A, B) and diffSurveys(B, A) have patches for exactly the same
\* identifiers, the patch of an identifier in one being the patch in the
\* other with old and new swapped.
C25_DiffSymmetric ==
    Diffed =>
        LET A == procs["p1"].req.Old
            B == procs["p1"].req.New
            AB == procs["p1"].resp.Updates
            BA == diffSurveys(B, A)
        IN /\ diffSurveys(A, A) = {}
           /\ diffSurveys(B, B) = {}
           /\ {p.Id : p \in AB} = {p.Id : p \in BA}
           /\ BA = {[Id |-> p.Id, Old |-> p.New, New |-> p.Old] : p \in AB}

\* the two lists hold the same identifier with a key that only one has, and
\* another identifier that only one list has
C25_Witness ==
    /\ Diffed
    /\ procs["p1"].req.Old = <<SA, SC>>
    /\ procs["p1"].req.New = <<SF>>
    /\ {p.Id : p \in procs["p1"].resp.Updates} = {"s1", "s2"}

\* the identifiers of a survey list, and the survey a list holds for an
\* identifier: the last one carrying it, the empty survey when there is none
ListIDs(list) == {ID(list[i]) : i \in DOMAIN list}

SurveyOf(list, id) ==
    IF id \notin ListIDs(list) THEN EmptySurvey
    ELSE LET last == CHOOSE i \in DOMAIN list :
                        /\ ID(list[i]) = id
                        /\ \A j \in DOMAIN list : ID(list[j]) = id => j <= i
         IN list[last]

\* C26: diffSurveys(old, new) emits exactly one patch {id, old, new} for each
\* identifier of the union of the identifiers of the two lists whose old and
\* new surveys are not equal, and no patch for any other identifier; a survey
\* absent from one side is the empty survey, and two surveys are equal iff
\* their values agree on every key of the union of their key sets, an absent
\* key read as the empty string.
C26_DiffPatches ==
    Diffed =>
        LET old == procs["p1"].req.Old
            new == procs["p1"].req.New
            patches == procs["p1"].resp.Updates
            Differ(id) ==
                \E key \in DOMAIN SurveyOf(old, id) \cup DOMAIN SurveyOf(new, id) :
                    Get(SurveyOf(old, id), key) # Get(SurveyOf(new, id), key)
        IN /\ \A id \in ListIDs(old) \cup ListIDs(new) :
                 Differ(id) <=> [Id |-> id, Old |-> SurveyOf(old, id),
                                 New |-> SurveyOf(new, id)] \in patches
           /\ \A p \in patches :
                 /\ p.Id \in ListIDs(old) \cup ListIDs(new)
                 /\ p.Old = SurveyOf(old, p.Id)
                 /\ p.New = SurveyOf(new, p.Id)
                 /\ \A q \in patches : q.Id = p.Id => q = p

\* one survey was removed (patched to the empty survey), one differs only in
\* a key that is absent on one side and empty on the other (no patch), and
\* one list carries an identifier twice
C26_Witness ==
    /\ Diffed
    /\ procs["p1"].req.Old = <<SA, SC>>
    /\ procs["p1"].req.New = <<SD, SE>>
    /\ procs["p1"].resp.Updates = {[Id |-> "s2", Old |-> SC, New |-> EmptySurvey]}

\* C27: every committed attachments/ tree holds at most one entry per
\* attachment name: two surveys of one WriteTrench that reference the same
\* name leave one entry for it, whether their checksums agree or not.
C27_OneEntryPerName ==
    \A h \in DOMAIN commits :
        LET entries == commits[h].TreeHash.attachments
        IN \A i \in DOMAIN entries, j \in DOMAIN entries :
               entries[i].Name = entries[j].Name => i = j

\* C28: every committed surveys/ tree holds no two entries with the same
\* file name <IdentifierUUID>.survey, also when the list given to WriteTrench
\* has two surveys with the same IdentifierUUID.
C28_UniqueSurveyFiles ==
    \A h \in DOMAIN commits :
        LET entries == commits[h].TreeHash.surveys
        IN \A i \in DOMAIN entries, j \in DOMAIN entries :
               entries[i].Name = entries[j].Name => i = j

\* C29: on a trench with a head, ReadAllSurveyVersions(id) succeeds and
\* returns, newest first, one entry for each commit of the parent chain of
\* the head whose surveys/<id>.survey differs from its parent's, each entry
\* with the survey as stored at that version, also when a later commit
\* removed the survey; a commit that removed the file has no survey to show
\* and may be listed or not.
C29_SurveyVersions ==
    head # NoHash =>
        LET r == ReadAllSurveyVersions(Store, "s1")
            log == ListVersions(Store)
            Stored(h) == FileAt(Store, "s1", h).ok
            Changed(h) == TouchesFile(Store, "s1", h)
        IN /\ r.ok
           /\ \E keep \in SUBSET {h \in Range(log) : Changed(h) /\ ~Stored(h)} :
                 LET Listed(h) == (Changed(h) /\ Stored(h)) \/ h \in keep
                     want == SelectSeq(log, Listed)
                 IN /\ Len(r.val) = Len(want)
                    /\ \A i \in DOMAIN want :
                          /\ r.val[i].Version = want[i]
                          /\ Stored(want[i]) =>
                               r.val[i].Survey
                                 = Unmarshal(FileAt(Store, "s1", want[i]).val)

\* C30: staged attachments persist: once ExistsAttachment(n, c) is true it is
\* true in every later state, whatever request is served, and
\* ReadAttachment(n, c) returns the bytes of the latest upload made for the
\* pair (n, c): a step changes what it returns only by uploading that pair.
C30_StagedPersist ==
    [][ \A n \in StagingNames, c \in StagingChecksums :
          LET a == procs'["p1"]
              after == [head |-> head', commits |-> commits', refs |-> refs']
          IN /\ ExistsAttachment(Store, n, c) => ExistsAttachment(after, n, c)
             /\ IF /\ Answered("p1")
                   /\ Staged(a)
                   /\ a.req.Name = n
                   /\ a.req.Checksum = c
                THEN ReadAttachment(after, n, c) = Ok(a.req.Data)
                ELSE ExistsAttachment(Store, n, c)
                       => ReadAttachment(after, n, c)
                            = ReadAttachment(Store, n, c) ]_vars

(***************************************************************************)
(* Access.  HandleTrench in front of every route of a trench: the Basic    *)
(* credentials of the request are checked against users.txt of the project *)
(* before NewBackend opens, or creates, the repository of the trench.      *)
(***************************************************************************)
\* users.txt is written with the bcrypt hash of each user's password
Passwords == [alice |-> "pa", bob |-> "pb", admin |-> "pc"]

Bcrypt(password) == <<"bcrypt", password>>

PasswordHashes == [user \in DOMAIN Passwords |-> Bcrypt(Passwords[user])]

CompareHashAndPassword(hash, password) == hash = Bcrypt(password)

\* a variant of HasAccess that looks at the name of the user only
HasAccessByName(user, password) == user \in DOMAIN PasswordHashes

HasAccess(user, password) ==
    /\ user \in DOMAIN PasswordHashes
    /\ CompareHashAndPassword(PasswordHashes[user], password)

\* Request.BasicAuth: no Authorization header, or a user and a password
NoCredentials == << >>

Credentials ==
    {NoCredentials, <<"alice", "pa">>, <<"alice", "pb">>, <<"alice", "">>,
     <<"bob", "pb">>, <<"eve", "pa">>}

UserOf(cred) == IF cred = NoCredentials THEN "" ELSE cred[1]

\* the requests of the six routes of a trench
AccessRequests(user) ==
    {SyncStart(user, h, "", surveys) :
        h \in ClientHeads, surveys \in {<< >>, <<SA>>}}
    \cup {PutAttachmentStart(user, "a", "c1", "d1")}
    \cup {NewProc("readAttachment", "http", user, HandleTrenchReadOnly(user),
                  [Name |-> "a", Checksum |-> "c1"])}
    \cup {NewProc("readSurveys", "http", user, HandleTrenchReadOnly(user),
                  [Version |-> v]) : v \in {NoHash} \cup DOMAIN commits}
    \cup {NewProc("readSurveyVersions", "http", user,
                  HandleTrenchReadOnly(user), [Id |-> "s1"])}
    \cup {NewProc("listVersions", "http", user, HandleTrenchReadOnly(user),
                  << >>)}

\* HandleTrench, lines 64-91 and the handler call
HandleTrench(cred, start) ==
    /\ procs["p1"].pc = "idle"
    /\ IF cred = NoCredentials \/ ~HasAccess(cred[1], cred[2])
       THEN /\ procs' = [procs EXCEPT !["p1"] =
                           [Respond(start, 401, NoResp)
                              EXCEPT !.ReadOnly = FALSE, !.cred = cred]]
            /\ UNCHANGED <<head, commits, refs, opened, objects>>
       ELSE Serve([start EXCEPT !.cred = cred])

AccessRoute(ops) ==
    \E cred \in Credentials :
        \E start \in {r \in AccessRequests(UserOf(cred)) : r.op \in ops} :
            HandleTrench(cred, start)

\* the routes NewServer registers with HandleTrench
NextAccess ==
    \/ AccessRoute({"sync"})
    \/ AccessRoute({"writeAttachment"})
    \/ AccessRoute({"readAttachment"})
    \/ AccessRoute({"readSurveys"})
    \/ AccessRoute({"readSurveyVersions"})
    \/ AccessRoute({"listVersions"})
    \/ Reply("p1")

SpecAccess == Init /\ [][NextAccess]_vars

\* the access policy of the project rejects the credentials: there are none,
\* the user is not in users.txt, or the password is not the user's
Rejected(cred) ==
    \/ cred = NoCredentials
    \/ cred[1] \notin DOMAIN Passwords
    \/ Passwords[cred[1]] # cred[2]

\* C31: every request to a route of a trench (sync, attachment upload and
\* download, survey and version reads) without Basic credentials, or with
\* credentials the access policy of the project rejects, is answered 401
\* before a backend is opened: it creates no trench and changes no head,
\* commit or reference.
C31_Unauthorized ==
    [][ ( Answered("p1") /\ Rejected(procs'["p1"].cred) )
        => /\ procs'["p1"].code = 401
           /\ StoreUnchanged
           /\ opened' = opened ]_vars

\* a sync request of alice with a wrong password was answered 401 on a
\* trench that no request had opened yet: the trench was not created
C31_Witness ==
    /\ procs["p1"].pc = "done"
    /\ procs["p1"].op = "sync"
    /\ procs["p1"].cred = <<"alice", "pb">>
    /\ procs["p1"].code = 401
    /\ procs["p1"].req.Surveys = <<SA>>
    /\ ~opened
    /\ head = NoHash

(***************************************************************************)
(* The writes of the object store, one by one.  Every call that writes a   *)
(* blob, a tree, a commit or a reference may fail, and then the operation  *)
(* returns the error; a request may also be abandoned where it stands.     *)
(***************************************************************************)
\* the survey lists and the upload of the operations followed write by write
ObjectSurveys == {<<SA>>, <<SD, SF>>}
ObjectUploads == {<<"a", "c1", "d1">>}

\* a variant of StoreTrees that stores no tree
StoreTreesNone(objs, trees, n) == objs

\* the first n calls of addTree of an operation
StoreTrees(objs, trees, n) == objs \cup {trees[i] : i \in 1 .. n}

\* the calls of addBlob for the first n surveys of the list
StoreSurveyBlobs(objs, surveys, n) ==
    objs \cup {Object("survey", Marshal(surveys[i])) : i \in 1 .. n}

\* the root tree the operation of request p commits
TreeToCommit(S, p) ==
    CASE p.op \in {"writeTrench", "sync"} ->
           TrenchTree(S, p.req.Preferences, p.req.Surveys).val
      [] p.op = "writePreferences" ->
           PreferencesTree(S, p.req.Preferences).val
      [] p.op = "rollback" -> S.commits[p.hash].TreeHash

\* the trees an operation writes with addTree, in the order of the calls
TreesToAdd(S, p) ==
    LET tree == TreeToCommit(S, p)
    IN IF p.op \in {"writeTrench", "sync"}
       THEN <<Object("surveys/", tree.surveys),
              Object("attachments/", tree.attachments), Object("/", tree)>>
       ELSE <<Object("/", tree)>>

\* One write of a request: the set of the possible outcomes [S, objs, p]
ObjectSteps(S, objs, p) ==
    CASE p.pc = "writeTrench" ->
           \* WriteTrench, lines 314-324: addBlob(preferences)
           IF p.ReadOnly THEN {[S |-> S, objs |-> objs, p |-> Failed(p, "Forbidden")]}
           ELSE {[S |-> S, objs |-> objs, p |-> Failed(p, "Failed to write")],
                 [S |-> S, objs |-> objs \cup {Object("bytes", p.req.Preferences)},
                  p |-> [p EXCEPT !.pc = "surveys"]]}
      [] p.pc = "surveys" ->
           \* lines 326-350: the loop stops at the first addBlob or reference
           \* lookup that fails, after the blobs of the surveys before it
           {[S |-> S, objs |-> StoreSurveyBlobs(objs, p.req.Surveys, n),
             p |-> Failed(p, "Failed to write")] :
               n \in 0 .. Len(p.req.Surveys) - 1}
           \cup (IF TrenchEntries(S, p.req.Surveys, 1).ok
                 THEN {[S |-> S,
                        objs |-> StoreSurveyBlobs(objs, p.req.Surveys,
                                                  Len(p.req.Surveys)),
                        p |-> [p EXCEPT !.pc = "addTree"]]}
                 ELSE {[S |-> S,
                        objs |-> StoreSurveyBlobs(objs, p.req.Surveys,
                                                  Len(p.req.Surveys)),
                        p |-> Failed(p, "reference not found")]})
      [] p.pc = "writePreferences" ->
           \* WritePreferences, lines 262-293
           IF p.ReadOnly THEN {[S |-> S, objs |-> objs, p |-> Failed(p, "Forbidden")]}
           ELSE IF ~PreferencesTree(S, p.req.Preferences).ok
           THEN {[S |-> S, objs |-> objs, p |-> Failed(p, "entry not found")]}
           ELSE {[S |-> S, objs |-> objs, p |-> Failed(p, "Failed to write")],
                 [S |-> S, objs |-> objs \cup {Object("bytes", p.req.Preferences)},
                  p |-> [p EXCEPT !.pc = "addTree"]]}
      [] p.pc = "rollback" ->
           \* Rollback, lines 378-385
           IF findCommit(S, p.req.Version) = {}
           THEN {[S |-> S, objs |-> objs, p |-> Failed(p, "Invalid version")]}
           ELSE {[S |-> S, objs |-> objs,
                  p |-> [p EXCEPT !.pc = "commit", !.hash = c]] :
                    c \in findCommit(S, p.req.Version)}
      [] p.pc = "addTree" ->
           \* the calls of addTree: the first that fails ends the operation
           LET trees == TreesToAdd(S, p)
           IN {[S |-> S, objs |-> StoreTrees(objs, trees, n),
                p |-> Failed(p, "Failed to write")] : n \in 0 .. Len(trees) - 1}
              \cup {[S |-> S, objs |-> StoreTrees(objs, trees, Len(trees)),
                     p |-> [p EXCEPT !.pc = "commit"]]}
      [] p.pc = "commit" ->
           \* commit, lines 420-455: the head is returned, or SetEncodedObject
           \* of the commit fails, or the commit is stored
           LET device == IF p.op \in {"writeTrench", "sync"}
                         THEN p.req.Device ELSE "terminal"
               message == CASE p.op \in {"writeTrench", "sync"} -> p.req.Message
                            [] p.op = "writePreferences" -> "Import Preferences"
                            [] p.op = "rollback" -> "Rollback"
           IN {[S |-> o.S, objs |-> objs, p |-> o.p] :
                 o \in CommitStep(S, p, device, message, TreeToCommit(S, p))}
              \cup {[S |-> S, objs |-> objs, p |-> Failed(p, "Failed to write")]}
      [] p.pc = "updateHEAD" ->
           \* commit, lines 457-462: updateHEAD fails or sets the branch
           {[S |-> o.S, objs |-> objs, p |-> o.p] : o \in Steps(S, p)}
           \cup {[S |-> S, objs |-> objs, p |-> Failed(p, "Failed to write")]}
      [] p.pc = "writeAttachment" ->
           \* WriteAttachment, lines 242-249: addBlob(data)
           IF p.ReadOnly THEN {[S |-> S, objs |-> objs, p |-> Failed(p, "Forbidden")]}
           ELSE {[S |-> S, objs |-> objs, p |-> Failed(p, "Failed to write")],
                 [S |-> S, objs |-> objs \cup {Object("bytes", p.req.Data)},
                  p |-> [p EXCEPT !.pc = "setReference"]]}
      [] p.pc = "setReference" ->
           \* WriteAttachment, lines 251-258: SetReference fails or sets it
           {[S |-> o.S, objs |-> objs, p |-> o.p] : o \in Steps(S, p)}
           \cup {[S |-> S, objs |-> objs, p |-> Failed(p, "Failed to write")]}
      [] OTHER ->
           \* SyncTrench before its call of WriteTrench: reads only
           {[S |-> o.S, objs |-> objs, p |-> o.p] : o \in Steps(S, p)}

ApplyWrite(o) ==
    /\ Len(o.S.commits) <= MaxCommits
    /\ head' = o.S.head
    /\ commits' = o.S.commits
    /\ refs' = o.S.refs
    /\ objects' = o.objs
    /\ procs' = [procs EXCEPT !["p1"] = o.p]
    /\ opened' = TRUE

\* a call of the backend starts and makes its first write
StartWrite(start) ==
    /\ procs["p1"].pc = "idle"
    /\ \E o \in ObjectSteps(Store, objects, start) : ApplyWrite(o)

\* the call makes its next write
NextWrite ==
    /\ procs["p1"].pc \notin {"idle", "done"}
    /\ \E o \in ObjectSteps(Store, objects, procs["p1"]) : ApplyWrite(o)

\* the call is abandoned where it stands (the process stops, the transport
\* cancels the request)
Abandon ==
    /\ procs["p1"].pc \notin {"idle", "done"}
    /\ procs' = [procs EXCEPT !["p1"] = IdleProc]
    /\ UNCHANGED <<head, commits, refs, opened, objects>>

NextObjects ==
    \/ \E preferences \in RequestPreferences, surveys \in ObjectSurveys :
          StartWrite(WriteTrenchStart(FALSE, preferences, surveys))
    \/ \E preferences \in RequestPreferences :
          StartWrite(WritePreferencesStart(FALSE, preferences))
    \/ \E version \in {NoHash} \cup DOMAIN commits :
          StartWrite(RollbackStart(FALSE, version))
    \/ \E u \in ObjectUploads :
          StartWrite(WriteAttachmentStart(FALSE, u[1], u[2], u[3]))
    \/ \E user \in HttpUsers :
          \E req \in {Malformed}
                     \cup {SyncRequest(Device, "", h, "", surveys) :
                             h \in {NoHash, head}, surveys \in ObjectSurveys} :
              StartWrite(NewProc("sync", "http", user,
                                 HandleTrenchReadOnly(user), req))
    \/ NextWrite
    \/ Abandon
    \/ Reply("p1")

SpecObjects == Init /\ [][NextObjects]_vars

\* the head of store S is empty, or names a commit of the store whose root
\* tree, sub-trees and blobs are all among the objects objs
HeadComplete(S, objs) ==
    \/ HeadOf(S) = NoHash
    \/ /\ HasCommit(S, HeadOf(S))
       /\ ObjectsOfTree(S.commits[HeadOf(S)].TreeHash) \subseteq objs

\* C32: at every step of every commit-producing operation, the intermediate
\* states of WriteTrench, WritePreferences and Rollback and the operations
\* that fail part-way included, the head is empty or names a commit object
\* of the store whose root tree, sub-trees and blobs are all in the store; a
\* write that failed or was abandoned does not advance the head.
C32_HeadComplete ==
    [][ LET after == [head |-> head', commits |-> commits', refs |-> refs']
        IN /\ HeadComplete(after, objects')
           /\ ( \/ procs'["p1"].pc = "done" /\ procs'["p1"].err # ""
                \/ procs["p1"].pc \notin {"idle", "done"}
                   /\ procs'["p1"].pc = "idle" )
              => head' = head ]_vars

\* a WriteTrench failed at its last write, updateHEAD, after an upload and a
\* first version: the commit object is stored and the head is still the first
C32_Witness ==
    /\ procs["p1"].pc = "done"
    /\ procs["p1"].op = "writeTrench"
    /\ procs["p1"].err # ""
    /\ Len(commits) = 2
    /\ head = 1
    /\ commits[2].TreeHash.attachments # << >>
    /\ ObjectsOfTree(commits[2].TreeHash) \subseteq objects

\* C33: a pull answer, and the ok or forbidden answer to a read-only
\* principal, is computed from one view of the trench: its updates and its
\* preferences are those of the commit whose hash it returns as version,
\* also when another request advances the head while the answer is built.
C33_ConsistentView ==
    \A p \in Procs :
        ( SyncDone(p) /\ procs[p].code = 200 ) =>
            LET a == procs[p]
                surveys == SurveysAt(Store, a.resp.Version)
                preferences == PreferencesAt(Store, a.resp.Version)
            IN /\ a.resp.Status = StatusPull =>
                    /\ a.resp.Updates
                         = diffSurveys(SurveysAt(Store, a.req.Head), surveys)
                    /\ a.resp.Preferences
                         = IF PreferencesAt(Store, a.req.Head) = preferences
                           THEN "" ELSE preferences
               /\ ( a.ReadOnly /\ a.resp.Status \in {StatusOK, StatusForbidden} ) =>
                    /\ a.resp.Updates = diffSurveys(a.req.Surveys, surveys)
                    /\ a.resp.Preferences
                         = IF a.req.Preferences = preferences THEN ""
                           ELSE preferences

\* the orders a list of surveys can be sent in
Reordered(surveys) ==
    {[i \in DOMAIN surveys |-> surveys[f[i]]] : f \in Permutations(DOMAIN surveys)}

\* C34: the root tree WriteTrench produces does not depend on the order of
\* the surveys: for a pushed list of surveys with pairwise distinct
\* identifiers, every reordering of it (same preferences) gives the same
\* root tree, so pushing the reordered list at the new head stores nothing
\* and is answered 'ok'.
C34_OrderIndependent ==
    [][ ( /\ Answered("p1")
          /\ procs'["p1"].op = "sync"
          /\ procs'["p1"].code = 200
          /\ procs'["p1"].resp.Status = StatusPushed
          /\ \A i \in DOMAIN procs'["p1"].req.Surveys,
                j \in DOMAIN procs'["p1"].req.Surveys :
                 ID(procs'["p1"].req.Surveys[i]) = ID(procs'["p1"].req.Surveys[j])
                   => i = j )
        => LET a == procs'["p1"]
               after == [head |-> head', commits |-> commits', refs |-> refs']
           IN \A surveys \in Reordered(a.req.Surveys) :
                 /\ TrenchTree(after, a.req.Preferences, surveys)
                      = Ok(commits'[head'].TreeHash)
                 /\ \A o \in Run(after, SyncStart(a.User, head',
                                                  a.req.Preferences, surveys)) :
                        /\ o.S = after
                        /\ o.p.code = 200
                        /\ o.p.resp.Status = StatusOK
                        /\ o.p.resp.Version = head' ]_vars

\* C35: a trench accessed for the first time has an empty head, and on a
\* trench with an empty head ReadPreferences() returns empty bytes without
\* error, ReadSurveys() returns an empty list without error, and a read-only
\* sync carrying no surveys and empty preferences is answered 'ok' with an
\* empty version.
C35_FirstAccess ==
    [][ /\ ~opened => (head = NoHash /\ commits = << >>)
        /\ head = NoHash =>
             /\ ReadPreferences(Store) = Ok("")
             /\ ReadSurveys(Store) = Ok(<< >>)
        /\ ( /\ Answered("p1")
             /\ head = NoHash
             /\ procs'["p1"].op = "sync"
             /\ procs'["p1"].code # 401
             /\ procs'["p1"].ReadOnly
             /\ procs'["p1"].req.Surveys = << >>
             /\ procs'["p1"].req.Preferences = "" )
           => /\ procs'["p1"].code = 200
              /\ procs'["p1"].resp.Status = StatusOK
              /\ procs'["p1"].resp.Version = NoHash
              /\ StoreUnchanged
              /\ opened' ]_vars

\* the first request a trench got was a sync of bob, who may not write, with
\* no surveys and no preferences: it was answered 'ok' with the empty version
C35_Witness ==
    /\ procs["p1"].pc = "done"
    /\ procs["p1"].op = "sync"
    /\ procs["p1"].cred = <<"bob", "pb">>
    /\ procs["p1"].ReadOnly
    /\ procs["p1"].req.Surveys = << >>
    /\ procs["p1"].req.Head = UnknownHash
    /\ procs["p1"].code = 200
    /\ procs["p1"].resp.Status = StatusOK
    /\ procs["p1"].resp.Version = NoHash
    /\ opened
    /\ head = NoHash

\* C36: Rollback(v) with a version string that does not resolve to a commit
\* of the trench (an unknown full hash, a prefix matching no commit, or a
\* string shorter than 4 characters, the empty string included) fails with
\* an invalid-version error and leaves the head and the history unchanged.
C36_InvalidVersion ==
    [][ ( /\ Answered("p1")
          /\ procs'["p1"].op = "rollback"
          /\ procs'["p1"].req.Version \notin DOMAIN commits )
        => /\ procs'["p1"].err = "Invalid version"
           /\ StoreUnchanged
           /\ ListVersions(Store)
                = ListVersions([head |-> head', commits |-> commits',
                                refs |-> refs']) ]_vars

\* C37: every sync request that is authenticated and well-formed is answered
\* with exactly one of the five statuses ok, pushed, pull, missing, forbidden
\* and HTTP code 200, or with an error; a malformed body is answered 400, and
\* a store failure during the read or the commit is answered 500 and never
\* advances the head.
C37_SyncAnswers ==
    [][ ( /\ procs["p1"].pc # "done"
          /\ procs'["p1"].pc = "done"
          /\ procs'["p1"].op = "sync" )
        => LET a == procs'["p1"]
           IN IF ~ShouldBindJSON(a.req)
              THEN a.code = 400 /\ StoreUnchanged
              ELSE \/ /\ a.code = 200
                      /\ a.resp.Status \in {StatusOK, StatusPushed, StatusPull,
                                            StatusMissing, StatusForbidden}
                   \/ /\ a.code = 500
                      /\ a.resp = NoResp
                      /\ head' = head ]_vars

====
